---- MODULE Spec2Model ----
(***************************************************************************)
(* Model of grid_simulator_app.py: the grid calculator build_grid and the  *)
(* Streamlit page around it (template store, range guard, calculate).      *)
(*                                                                         *)
(* Numbers.  The program computes in binary64; the model computes the same *)
(* expressions exactly, in decimal fixed point:                            *)
(*   - an input price or slice x is the integer x * 10^InputDp;            *)
(*   - a price rounded to price_dp decimals is an integer count of ticks   *)
(*     of 10^-price_dp;                                                    *)
(*   - a value rounded to 2 decimals is an integer count of cents.         *)
(* Where a decimal tie is not a tie in binary64 the two roundings can      *)
(* differ by one unit in the last place; no property below depends on      *)
(* which way a tie falls.                                                  *)
(* TLC's integers are 32 bits wide, so GridSpec draws its inputs from     *)
(* values whose intermediate products stay below 2^31.                     *)
(* A float array cell that may be non-finite (a division by a price that   *)
(* rounded to 0.0) is a record [fin, v]: Num(n) or NaN.                     *)
(***************************************************************************)
EXTENDS Integers, Sequences, FiniteSets, TLC

\* ------------------------------------------------------------------
\* Bounds of the model
\* ------------------------------------------------------------------
\* levels ranges over 2..MaxLevels in GridSpec (the page allows 2..200)
MaxLevels == 3
\* price_dp ranges over MinPriceDp..MaxPriceDp in GridSpec (the page allows 2..10)
MaxPriceDp == 4
\* decimals of the inputs GridSpec enumerates (prices, slice): as fine as the
\* finest rounding, so that price_dp <= InputDp
InputDp == MaxPriceDp

\* interactions (selections, edits, clicks) the users make in a behaviour of Spec
MaxInteractions == 5

\* ------------------------------------------------------------------
\* Program constants
\* ------------------------------------------------------------------
\* min_value of the "Price decimals" widget
MinPriceDp == 2
\* min_value of the "Levels (rows)" widget
MinLevels == 2
\* the lot size: quantities are blocks of 10
Lot == 10
\* decimals of the money columns (np.round(..., 2))
MoneyDp == 2

\* ------------------------------------------------------------------
\* Arithmetic
\* ------------------------------------------------------------------
RECURSIVE Pow10(_)
Pow10(n) == IF n <= 0 THEN 1 ELSE 10 * Pow10(n - 1)

\* np.round: n/d (d > 0) rounded to the nearest integer, ties to the even one
RoundHalfEven(n, d) ==
    LET q == n \div d
        r == n % d
    IN  IF 2 * r < d THEN q
        ELSE IF 2 * r > d THEN q + 1
        ELSE IF q % 2 = 0 THEN q ELSE q + 1

\* float cells
Num(n) == [fin |-> TRUE, v |-> n]
NaN == [fin |-> FALSE, v |-> 0]
FAdd(a, b) == IF a.fin /\ b.fin THEN Num(a.v + b.v) ELSE NaN
FMul(a, b) == IF a.fin /\ b.fin THEN Num(a.v * b.v) ELSE NaN
FNeg(a) == IF a.fin THEN Num(0 - a.v) ELSE NaN
\* np.round(a / 10^from, to) for a cell a counted in units of 10^-from, from >= to
FRound(a, from, to) ==
    IF a.fin THEN Num(RoundHalfEven(a.v, Pow10(from - to))) ELSE NaN
\* IEEE comparisons: every comparison with NaN is false
FLt(a, b) == a.fin /\ b.fin /\ a.v < b.v
FLe(a, b) == a.fin /\ b.fin /\ a.v <= b.v
FEq(a, b) == a.fin /\ b.fin /\ a.v = b.v

\* ------------------------------------------------------------------
\* Core calc: build_grid
\* ------------------------------------------------------------------
\* raw_gap = (max_px - min_px) / intervals, kept as an exact fraction of input units
raw_gap_of(min_px, max_px, intervals) == [num |-> max_px - min_px, den |-> intervals]

\* mutant of raw_price_num: the ladder climbs from min_px (sign slip)
raw_price_num_ascending(min_px, max_px, intervals, i) ==
    min_px * intervals + i * (max_px - min_px)

\* raw_prices[i] = max_px - i * raw_gap, as a numerator over intervals
raw_price_num(min_px, max_px, intervals, i) ==
    max_px * intervals - i * (max_px - min_px)

\* prices[i] = np.round(raw_prices[i], price_dp), in ticks of 10^-price_dp
price_at(min_px, max_px, intervals, price_dp, i) ==
    RoundHalfEven(raw_price_num(min_px, max_px, intervals, i),
                  intervals * Pow10(InputDp - price_dp))

\* qty = np.floor_divide(usdt_slice / price, 10) * 10, then 10 where that is 0.
\* usdt_slice / 0.0 is inf (0.0 / 0.0 is nan); floor_divide of either is nan,
\* nan * 10 is nan and nan == 0 is false, so the cell stays nan.
qty_at(usdt_slice, price, price_dp) ==
    IF price = 0 THEN NaN
    ELSE LET q == (usdt_slice \div (price * Pow10(InputDp - price_dp) * Lot)) * Lot
         IN  Num(IF q = 0 THEN Lot ELSE q)

\* vwap = np.round(cumsum(qty * prices) / acc_qty, price_dp), in ticks
vwap_at(cum, acc_qty) ==
    IF cum.fin /\ acc_qty.fin THEN Num(RoundHalfEven(cum.v, acc_qty.v)) ELSE NaN

\* unreal = np.round((price - start_px) * acc_qty, 2), in cents
unreal_at(price, start_px, acc_qty, price_dp) ==
    FRound(FMul(Num(price * Pow10(InputDp - price_dp) - start_px), acc_qty),
           InputDp, MoneyDp)

\* mutant of draw_step: the step's loss replaces the running sum (draw[i-1] dropped)
draw_step_no_carry(draw_prev, price_prev, price, acc_prev) ==
    FMul(Num(price_prev - price), acc_prev)

\* one pass of the loop: draw[i] = draw[i-1] + (prices[i-1] - prices[i]) * acc_qty[i-1]
draw_step(draw_prev, price_prev, price, acc_prev) ==
    FAdd(draw_prev, FMul(Num(price_prev - price), acc_prev))

\* draw = -np.round(draw, 2), in cents
draw_published(draw, price_dp) == FNeg(FRound(draw, price_dp, MoneyDp))

\* m_slice = np.round(usdt_slice / leverage, 2), in cents
m_slice_of(usdt_slice, leverage) ==
    RoundHalfEven(usdt_slice, leverage * Pow10(InputDp - MoneyDp))

\* notional = np.round(usdt_slice * level, 2), in cents
notional_at(usdt_slice, level) ==
    RoundHalfEven(usdt_slice * level, Pow10(InputDp - MoneyDp))

\* np.arange(start, stop), as a sequence
arange(start, stop) == [k \in 1..(stop - start) |-> start + k - 1]

\* mutant of level_column: np.arange(levels), levels numbered from 0
level_column_from_zero(levels) == arange(0, levels)

\* the "Level" column: np.arange(1, levels + 1)
level_column(levels) == arange(1, levels + 1)

\* The rows of the DataFrame, built front to back: one row per element of
\* np.arange(levels).  i is the 0-based index of the next row; acc, cum and draw
\* are the running acc_qty, cumsum(qty * prices) and unrounded draw of row i-1,
\* prev its price.
RECURSIVE grid_rows(_, _, _, _, _, _, _)
grid_rows(a, i, acc, cum, draw, prev, rows) ==
    IF i >= Len(arange(0, a.levels)) THEN rows
    ELSE LET intervals == a.levels - 1
             price == price_at(a.min_px, a.max_px, intervals, a.price_dp,
                               arange(0, a.levels)[i + 1])
             qty == qty_at(a.usdt_slice, price, a.price_dp)
             acc_qty == IF i = 0 THEN qty ELSE FAdd(acc, qty)
             cum_i == IF i = 0 THEN FMul(qty, Num(price))
                      ELSE FAdd(cum, FMul(qty, Num(price)))
             draw_i == IF i = 0 THEN Num(0) ELSE draw_step(draw, prev, price, acc)
             unreal == unreal_at(price, a.start_px, acc_qty, a.price_dp)
             m_slice == m_slice_of(a.usdt_slice, a.leverage)
             row == [Level |-> level_column(a.levels)[i + 1],
                     Price |-> price,
                     Qty |-> qty,
                     AccQty |-> acc_qty,
                     AvgPrice |-> vwap_at(cum_i, acc_qty),
                     Unrealised |-> unreal,
                     Drawdown |-> draw_published(draw_i, a.price_dp),
                     PnL |-> unreal,
                     MarginPerLvl |-> m_slice,
                     AccMargin |-> m_slice * level_column(a.levels)[i + 1],
                     Nominal |-> notional_at(a.usdt_slice, level_column(a.levels)[i + 1])]
         IN  grid_rows(a, i + 1, acc_qty, cum_i, draw_i, price, Append(rows, row))

\* build_grid(min_px, max_px, start_px, levels, usdt_slice, leverage, price_dp)
\* returns (df, raw_gap)
build_grid(min_px, max_px, start_px, levels, usdt_slice, leverage, price_dp) ==
    LET a == [min_px |-> min_px, max_px |-> max_px, start_px |-> start_px,
              levels |-> levels, usdt_slice |-> usdt_slice, leverage |-> leverage,
              price_dp |-> price_dp]
    IN  [df |-> grid_rows(a, 0, NaN, NaN, Num(0), 0, << >>),
         raw_gap |-> raw_gap_of(min_px, max_px, levels - 1)]

\* ------------------------------------------------------------------
\* A build_grid call and its parameters
\* ------------------------------------------------------------------
\* g_args: the parameters of the call; g_ret: what it returned; g_pc: call | returned
VARIABLES g_args, g_ret, g_pc

gvars == <<g_args, g_ret, g_pc>>

\* prices and slices, in units of 10^-InputDp
PriceInputs == {10, 25, 40, 9950, 10050, 20000}
StartInputs == {20, 15000}
SliceInputs == {500, 20000}
LeverageInputs == {1, 50}

\* the valid parameter sets: min_price > 0, max_price > min_price, usdt_slice > 0,
\* levels >= 2, leverage >= 1, price_dp >= 2
ValidArgs ==
    {a \in [min_px : PriceInputs, max_px : PriceInputs, start_px : StartInputs,
            levels : MinLevels..MaxLevels, usdt_slice : SliceInputs,
            leverage : LeverageInputs, price_dp : MinPriceDp..MaxPriceDp] :
        a.min_px > 0 /\ a.max_px > a.min_px}

NoRet == [df |-> << >>, raw_gap |-> [num |-> 0, den |-> 1]]

\* ------------------------------------------------------------------
\* The page: template storage, sidebar, range guard, calculate
\* ------------------------------------------------------------------
\* Streamlit reruns the script top to bottom on every interaction of a session;
\* sessions run in their own threads and share only the template file.
Sessions == {"s1", "s2"}

\* what a user types in "Save current as template (name)"; the field starts empty
NameInputs == {"a", "b", "<None>"}

\* the value= defaults of the parameter widgets; prices and slice in units of 10^-4
Defaults ==
    [px_top |-> 70000, px_bottom |-> 10000, spot |-> 27916, levels |-> 124,
     slice_val |-> 2032520, leverage |-> 50, price_dp |-> 6, gap_dp |-> 8]

WidgetKeys == DOMAIN Defaults

\* the edits a user makes to the parameter widgets
EditChoices ==
    {[k |-> "px_top", v |-> 10000], [k |-> "px_top", v |-> 70000]}

\* a record written by an earlier version of the page, without the display fields
LegacyRecord ==
    [max_price |-> 50000, min_price |-> 20000, start_price |-> 30000, levels |-> 10,
     usdt_slice |-> 1000000, leverage |-> 5]

EmptyMap == [n \in {} |-> 0]

\* grid_templates.json: absent; text that is not JSON (garbage); JSON that is not
\* an object, such as [] or null (nondict); or a JSON object name -> record (dict)
FileAbsent == [kind |-> "absent", data |-> EmptyMap]
FileGarbage == [kind |-> "garbage", data |-> EmptyMap]
FileNonDict == [kind |-> "nondict", data |-> EmptyMap]
FileLegacy == [kind |-> "dict", data |-> [n \in {"old"} |-> LegacyRecord]]

\* a loaded value: a dict, or whatever else json.loads returned
Dict(m) == [isdict |-> TRUE, map |-> m]
NotADict == [isdict |-> FALSE, map |-> EmptyMap]

\* load_templates(): {} when the file is absent or json.loads raises JSONDecodeError,
\* else whatever json.loads returns
load_templates(f) ==
    IF f.kind = "dict" THEN Dict(f.data)
    ELSE IF f.kind = "nondict" THEN NotADict
    ELSE Dict(EmptyMap)

\* mutant of save_templates: only the record being saved is written
save_templates_only_new(tpls, name) ==
    [kind |-> "dict", data |-> [n \in {name} |-> tpls[n]]]

\* save_templates(tpls): the whole mapping, as JSON text, replaces the file
\* (name is the key the caller has just set)
save_templates(tpls, name) == [kind |-> "dict", data |-> tpls]

\* d.get(k, dv)
Get(d, k, dv) == IF k \in DOMAIN d THEN d[k] ELSE dv

\* template_to_kwargs(d)
template_to_kwargs(d) ==
    [px_top |-> d.max_price,
     px_bottom |-> d.min_price,
     spot |-> d.start_price,
     levels |-> d.levels,
     slice_val |-> d.usdt_slice,
     leverage |-> d.leverage,
     price_dp |-> Get(d, "price_dp", 6),
     gap_dp |-> Get(d, "gap_dp", 8)]

\* the record "Save template" stores under the name
template_record(w) ==
    [max_price |-> w.px_top,
     min_price |-> w.px_bottom,
     start_price |-> w.spot,
     levels |-> w.levels,
     usdt_slice |-> w.slice_val,
     leverage |-> w.leverage,
     price_dp |-> w.price_dp,
     gap_dp |-> w.gap_dp]

\* mutant of range_rejected: equal bounds pass the guard
range_rejected_strict(px_top, px_bottom) == px_top < px_bottom

\* if px_top <= px_bottom: st.error(...); st.stop()
range_rejected(px_top, px_bottom) == px_top <= px_bottom

\* nothing rendered yet
NoOutput == [crashed |-> FALSE, saved |-> FALSE, error |-> FALSE, table |-> << >>]

\* file: the template file
\* pc[s]: idle (waiting for the user) | top | save | guard | calc (script position)
\* trigger[s]: the interaction that started the session's current or last run
\* tpls[s]: the module-level tpls of the run
\* options[s]: tpl_names offered by the selectbox
\* selected[s]: selected_tpl
\* offered[s]: the value= defaults the parameter widgets were last created with
\* w[s]: the values the parameter widgets return
\* new_tpl_name[s]: the text input
\* out[s]: what the run has rendered: an exception, st.success, st.error, and the
\*         table (the arguments build_grid was called with, gap and CSV go with it)
\* interactions: how many interactions the users have made
VARIABLES file, pc, trigger, tpls, options, selected, offered, w, new_tpl_name, out,
          interactions

pvars == <<file, pc, trigger, tpls, options, selected, offered, w, new_tpl_name, out,
           interactions>>

vars == <<pvars, gvars>>

\* the page as each session first opens it; the file is whatever is on disk
PageInit ==
    /\ file \in {FileAbsent, FileGarbage, FileNonDict, FileLegacy}
    /\ pc = [s \in Sessions |-> "top"]
    /\ trigger = [s \in Sessions |-> "open"]
    /\ tpls = [s \in Sessions |-> Dict(EmptyMap)]
    /\ options = [s \in Sessions |-> {}]
    /\ selected = [s \in Sessions |-> "<None>"]
    /\ offered = [s \in Sessions |-> Defaults]
    /\ w = [s \in Sessions |-> Defaults]
    /\ new_tpl_name = [s \in Sessions |-> ""]
    /\ out = [s \in Sessions |-> NoOutput]
    /\ interactions = 0

\* an interaction starts a rerun: the page is rendered afresh
Rerun(s, how) ==
    /\ pc[s] = "idle"
    /\ interactions < MaxInteractions
    /\ interactions' = interactions + 1
    /\ UNCHANGED gvars
    /\ pc' = [pc EXCEPT ![s] = "top"]
    /\ trigger' = [trigger EXCEPT ![s] = how]
    /\ out' = [out EXCEPT ![s] = NoOutput]

\* the user picks an entry of "Load template"
UserSelect(s) ==
    \E n \in options[s] \cup {"<None>"} :
        /\ n # selected[s] \/ n \in options[s]
        /\ Rerun(s, "select")
        /\ selected' = [selected EXCEPT ![s] = n]
        /\ UNCHANGED <<file, tpls, options, offered, w, new_tpl_name>>

\* the user changes a parameter widget
UserEdit(s) ==
    \E e \in EditChoices :
        /\ w[s][e.k] # e.v
        /\ Rerun(s, "edit")
        /\ w' = [w EXCEPT ![s][e.k] = e.v]
        /\ UNCHANGED <<file, tpls, options, selected, offered, new_tpl_name>>

\* the user types a template name
UserTypeName(s) ==
    \E n \in NameInputs :
        /\ new_tpl_name[s] # n
        /\ Rerun(s, "name")
        /\ new_tpl_name' = [new_tpl_name EXCEPT ![s] = n]
        /\ UNCHANGED <<file, tpls, options, selected, offered, w>>

\* the user clicks "Save template"
UserClickSave(s) ==
    /\ Rerun(s, "save")
    /\ UNCHANGED <<file, tpls, options, selected, offered, w, new_tpl_name>>

\* the user clicks "Calculate grid"
UserClickCalc(s) ==
    /\ Rerun(s, "calc")
    /\ UNCHANGED <<file, tpls, options, selected, offered, w, new_tpl_name>>

\* tpls = load_templates(), the selectbox, kwargs and the parameter widgets.
\* tpls.keys() raises AttributeError when tpls is not a dict: the run ends there.
\* A selectbox whose value is no longer an option falls back to its first option;
\* a number_input created with the value= it had in the last run keeps what the
\* user set, one created with another value= starts from that value.
RunTop(s) ==
    /\ pc[s] = "top"
    /\ LET loaded == load_templates(file)
       IN  IF ~loaded.isdict
           THEN /\ tpls' = [tpls EXCEPT ![s] = loaded]
                /\ out' = [out EXCEPT ![s].crashed = TRUE]
                /\ pc' = [pc EXCEPT ![s] = "idle"]
                /\ UNCHANGED <<options, selected, offered, w>>
           ELSE LET tpl_names == DOMAIN loaded.map
                    selected_tpl == IF selected[s] \in tpl_names \cup {"<None>"}
                                    THEN selected[s] ELSE "<None>"
                    kwargs == IF selected_tpl # "<None>"
                              THEN template_to_kwargs(loaded.map[selected_tpl])
                              ELSE EmptyMap
                    value == [k \in WidgetKeys |-> Get(kwargs, k, Defaults[k])]
                IN  /\ tpls' = [tpls EXCEPT ![s] = loaded]
                    /\ options' = [options EXCEPT ![s] = tpl_names]
                    /\ selected' = [selected EXCEPT ![s] = selected_tpl]
                    /\ offered' = [offered EXCEPT ![s] = value]
                    /\ w' = [w EXCEPT ![s] =
                                [k \in WidgetKeys |->
                                    IF value[k] = offered[s][k] THEN w[s][k] ELSE value[k]]]
                    /\ pc' = [pc EXCEPT ![s] = "save"]
                    /\ UNCHANGED out
    /\ UNCHANGED <<file, trigger, new_tpl_name, interactions, gvars>>

\* if st.button("Save template") and new_tpl_name: tpls[name] = {...}; save_templates(tpls)
RunSave(s) ==
    /\ pc[s] = "save"
    /\ IF trigger[s] = "save" /\ new_tpl_name[s] # ""
       THEN LET name == new_tpl_name[s]
                m == tpls[s].map
                updated == [n \in DOMAIN m \cup {name} |->
                               IF n = name THEN template_record(w[s]) ELSE m[n]]
            IN  /\ tpls' = [tpls EXCEPT ![s] = Dict(updated)]
                /\ file' = save_templates(updated, name)
                /\ out' = [out EXCEPT ![s].saved = TRUE]
       ELSE UNCHANGED <<tpls, file, out>>
    /\ pc' = [pc EXCEPT ![s] = "guard"]
    /\ UNCHANGED <<trigger, options, selected, offered, w, new_tpl_name, interactions,
                   gvars>>

\* if px_top <= px_bottom: st.error("Max price must be > Min price"); st.stop()
RunGuard(s) ==
    /\ pc[s] = "guard"
    /\ IF range_rejected(w[s].px_top, w[s].px_bottom)
       THEN /\ out' = [out EXCEPT ![s].error = TRUE]
            /\ pc' = [pc EXCEPT ![s] = "idle"]
       ELSE /\ pc' = [pc EXCEPT ![s] = "calc"]
            /\ UNCHANGED out
    /\ UNCHANGED <<file, trigger, tpls, options, selected, offered, w, new_tpl_name,
                   interactions, gvars>>

\* if st.button("Calculate grid"): df, raw_gap = build_grid(...); the table, the gap
\* line and the CSV download are rendered from them.  The DataFrame is build_grid of
\* the recorded arguments (GridSpec).
RunCalc(s) ==
    /\ pc[s] = "calc"
    /\ IF trigger[s] = "calc"
       THEN out' = [out EXCEPT ![s].table =
                        <<[min_px |-> w[s].px_bottom, max_px |-> w[s].px_top,
                           start_px |-> w[s].spot, levels |-> w[s].levels,
                           usdt_slice |-> w[s].slice_val, leverage |-> w[s].leverage,
                           price_dp |-> w[s].price_dp, gap_dp |-> w[s].gap_dp]>>]
       ELSE UNCHANGED out
    /\ pc' = [pc EXCEPT ![s] = "idle"]
    /\ UNCHANGED <<file, trigger, tpls, options, selected, offered, w, new_tpl_name,
                   interactions, gvars>>

\* the grid variables at rest while the page runs
GridIdle ==
    /\ g_args = [min_px |-> 10, max_px |-> 25, start_px |-> 20, levels |-> MinLevels,
                 usdt_slice |-> 500, leverage |-> 1, price_dp |-> MinPriceDp]
    /\ g_ret = NoRet
    /\ g_pc = "idle"

Init == PageInit /\ GridIdle

Next ==
    \E s \in Sessions :
        \/ UserSelect(s)
        \/ UserEdit(s)
        \/ UserTypeName(s)
        \/ UserClickSave(s)
        \/ UserClickCalc(s)
        \/ RunTop(s)
        \/ RunSave(s)
        \/ RunGuard(s)
        \/ RunCalc(s)

Spec == Init /\ [][Next]_vars

\* the page variables at rest while GridSpec runs
PageIdle ==
    /\ file = FileAbsent
    /\ pc = [s \in Sessions |-> "idle"]
    /\ trigger = [s \in Sessions |-> "open"]
    /\ tpls = [s \in Sessions |-> Dict(EmptyMap)]
    /\ options = [s \in Sessions |-> {}]
    /\ selected = [s \in Sessions |-> "<None>"]
    /\ offered = [s \in Sessions |-> Defaults]
    /\ w = [s \in Sessions |-> Defaults]
    /\ new_tpl_name = [s \in Sessions |-> ""]
    /\ out = [s \in Sessions |-> NoOutput]
    /\ interactions = 0

\* ------------------------------------------------------------------
\* GridSpec: build_grid applied to every valid parameter set of the bounds
\* ------------------------------------------------------------------
GridStart ==
    /\ g_args \in ValidArgs
    /\ g_ret = NoRet
    /\ g_pc = "call"

\* df, raw_gap = build_grid(...)
GridCall ==
    /\ g_pc = "call"
    /\ g_ret' = build_grid(g_args.min_px, g_args.max_px, g_args.start_px, g_args.levels,
                           g_args.usdt_slice, g_args.leverage, g_args.price_dp)
    /\ g_pc' = "returned"
    /\ UNCHANGED g_args
    /\ UNCHANGED pvars

\* the caller comes back with another parameter set
GridAgain ==
    /\ g_pc = "returned"
    /\ g_args' \in ValidArgs
    /\ g_ret' = NoRet
    /\ g_pc' = "call"
    /\ UNCHANGED pvars

GridInit == GridStart /\ PageIdle

GridNext == GridCall \/ GridAgain

GridSpec == GridInit /\ [][GridNext]_vars

\* ==================================================================
\* Claims about the page (checked under Spec)
\* ==================================================================
\* the names a template can be stored under
StoreNames == NameInputs \cup {"old"}

InStore(n) == file.kind = "dict" /\ n \in DOMAIN file.data
InStoreNext(n) == file'.kind = "dict" /\ n \in DOMAIN file'.data

\* session s takes the step of that script position
Steps(s, at) == pc[s] = at /\ pc'[s] # at

\* C4: while max_price <= min_price the script never reaches the calculate step
\* (where build_grid is called) and no table, gap or CSV is on the page.
C4_NoGridOnInvalidRange ==
    \A s \in Sessions :
        /\ pc[s] = "calc" => w[s].px_top > w[s].px_bottom
        /\ out[s].table # << >> =>
              /\ w[s].px_top > w[s].px_bottom
              /\ out[s].table[1].max_px > out[s].table[1].min_px

\* "Calculate grid" was clicked with max_price <= min_price: the run stopped at
\* the error and rendered no table
C4_Witness ==
    \E s \in Sessions :
        /\ pc[s] = "idle"
        /\ trigger[s] = "calc"
        /\ w[s].px_top <= w[s].px_bottom
        /\ out[s].error
        /\ out[s].table = << >>

\* C5: saving the current parameters under a non-empty name stores them, and
\* loading a stored template offers the parameter widgets exactly the stored
\* values, price_dp and gap_dp defaulting to 6 and 8 when the record lacks them.
\* (stated as claimed; refuted by the name "<None>")
C5_SaveThenLoadRoundTrip ==
    [][\A s \in Sessions :
          /\ (Steps(s, "save") /\ trigger[s] = "save" /\ new_tpl_name[s] # "") =>
                /\ InStoreNext(new_tpl_name[s])
                /\ template_to_kwargs(file'.data[new_tpl_name[s]]) = w[s]
          /\ \A n \in StoreNames :
                (Steps(s, "top") /\ trigger[s] = "select" /\ selected[s] = n /\ InStore(n)) =>
                    offered'[s] = [k \in WidgetKeys |->
                                      Get(file.data[n], CASE k = "px_top" -> "max_price"
                                                          [] k = "px_bottom" -> "min_price"
                                                          [] k = "spot" -> "start_price"
                                                          [] k = "slice_val" -> "usdt_slice"
                                                          [] OTHER -> k,
                                          Defaults[k])]
      ]_vars

\* C6 as claimed: a name that is in the store is still in the store after every
\* later step of any session.
C6_NeverDeleted ==
    [][\A n \in StoreNames : InStore(n) => InStoreNext(n)]_vars

\* C6 as amended: a name leaves the store only in the save step of a run whose
\* loaded copy of the store did not contain it; a save keeps every name its own
\* run loaded.
C6_DroppedOnlyByStaleSave ==
    [][\A n \in StoreNames :
          (InStore(n) /\ ~InStoreNext(n)) =>
              \E s \in Sessions : Steps(s, "save") /\ n \notin DOMAIN tpls[s].map
      ]_vars

\* a session holds a name it loaded or saved that the store has since lost
\* to another session's save
C6_Witness ==
    \E s \in Sessions : \E n \in StoreNames :
        /\ n \in DOMAIN tpls[s].map
        /\ file.kind = "dict"
        /\ n \notin DOMAIN file.data

\* C7: when the file exists but does not parse as the name-to-record mapping,
\* loading yields the empty mapping and the run goes on: no exception, only
\* "<None>" on offer, the parameters at their defaults.
\* (stated as claimed; refuted by a file holding JSON that is not an object)
C7_UnparseableFileIsEmptyMapping ==
    [][\A s \in Sessions :
          (Steps(s, "top") /\ file.kind \in {"garbage", "nondict"}) =>
              /\ tpls'[s] = Dict(EmptyMap)
              /\ ~out'[s].crashed
              /\ pc'[s] = "save"
              /\ options'[s] = {}
              /\ offered'[s] = Defaults
      ]_vars

\* ==================================================================
\* Claims about build_grid (checked under GridSpec)
\* ==================================================================
Built == g_pc = "returned"
df == g_ret.df
Rows == 1..Len(df)

\* C1: every row's quantity is a multiple of 10 and at least 10.
\* (stated as claimed; refuted where a price rounds to 0.0)
C1_QtyLotAligned ==
    Built => \A k \in Rows :
        /\ df[k].Qty.fin
        /\ df[k].Qty.v % Lot = 0
        /\ df[k].Qty.v >= Lot

\* C2 as claimed: the published prices are strictly decreasing across levels.
C2_PricesStrictlyDecreasing ==
    Built => \A k \in Rows : k > 1 => df[k].Price < df[k - 1].Price

\* C2 as amended: the published prices never increase across levels.
C2_PricesNonIncreasing ==
    Built => \A k \in Rows : k > 1 => df[k].Price <= df[k - 1].Price

\* a grid whose rounding made two neighbouring levels share a price while the
\* ladder as a whole still descends
C2_Witness ==
    /\ Built
    /\ \E k \in Rows : k > 1 /\ df[k].Price = df[k - 1].Price
    /\ df[Len(df)].Price < df[1].Price

\* C3: the first row's drawdown is 0 and every row's drawdown is <= 0.
\* (stated as claimed; refuted where acc_qty is nan, see C1)
C3_DrawdownNonPositive ==
    Built =>
        /\ FEq(df[1].Drawdown, Num(0))
        /\ \A k \in Rows : FLe(df[k].Drawdown, Num(0))

\* C8: build_grid returns exactly `levels` rows and row k's Level is k.
C8_RowCount ==
    Built =>
        /\ Len(df) = g_args.levels
        /\ \A k \in Rows : df[k].Level = k

C8_Witness == Built /\ Len(df) > MinLevels /\ df[Len(df)].Level = g_args.levels

\* the running sum of the Qty column through row k
RECURSIVE QtySum(_, _)
QtySum(d, k) == IF k = 1 THEN d[1].Qty ELSE FAdd(QtySum(d, k - 1), d[k].Qty)

\* C9: acc_qty is the running sum of the quantities and strictly increases
\* from each row to the next.  (stated as claimed; refuted by nan, see C1)
C9_AccQtyIncreasing ==
    Built => \A k \in Rows :
        /\ FEq(df[k].AccQty, QtySum(df, k))
        /\ k > 1 => FLt(df[k - 1].AccQty, df[k].AccQty)

\* the unrounded running sum over j = 2..k of (Price[j-1] - Price[j]) * AccQty[j-1],
\* read off the published Price and Acc Qty columns
RECURSIVE RunningLoss(_, _)
RunningLoss(d, k) ==
    IF k = 1 THEN Num(0)
    ELSE FAdd(RunningLoss(d, k - 1), FMul(Num(d[k - 1].Price - d[k].Price), d[k - 1].AccQty))

\* the same sum with every step's term rounded to cents before it is added
RECURSIVE SteppedLoss(_, _, _)
SteppedLoss(d, k, dp) ==
    IF k = 1 THEN Num(0)
    ELSE FAdd(SteppedLoss(d, k - 1, dp),
              FRound(FMul(Num(d[k - 1].Price - d[k].Price), d[k - 1].AccQty), dp, MoneyDp))

\* C10: the published drawdown of row k is minus the 2-decimal rounding of the
\* unrounded running sum of (price[j-1] - price[j]) * acc_qty[j-1]: only the
\* final series is rounded.  (A nan sum is published as nan.)
C10_DrawdownIsRoundedRunningLoss ==
    Built => \A k \in Rows :
        df[k].Drawdown = FNeg(FRound(RunningLoss(df, k), g_args.price_dp, MoneyDp))

\* a grid where rounding each step first would have published another value
C10_Witness ==
    /\ Built
    /\ \E k \in Rows :
        /\ df[k].Drawdown.fin
        /\ df[k].Drawdown.v < 0
        /\ SteppedLoss(df, k, g_args.price_dp) # FNeg(df[k].Drawdown)

====
